---- MODULE Spec2Model ----
(***************************************************************************)
(* AF_XDP device of smoltcp-contrib: the UMEM chunk pool (umem.rs), the    *)
(* four single-producer/single-consumer rings (rings.rs) and the device    *)
(* adapter (xdp.rs), with the kernel as the protocol-following peer on the *)
(* other end of each ring.                                                 *)
(*                                                                         *)
(* The specifications share the operators below:                           *)
(*   Spec      the adapter: XdpSocket::new, receive, TxToken::consume and  *)
(*             the kernel's Fill->RX and TX->Completion steps;             *)
(*   SpecRing  one ring alone, a Writer handle against a Reader handle;    *)
(*   SpecUmem  the pool alone, Umem::new followed by write and by free of  *)
(*             chunks that are not on the free list;                       *)
(*   SpecData  Spec together with the bytes held in each chunk;            *)
(*   SpecLife  XdpSocket::new statement by statement, with failing system  *)
(*             calls, and the drop of the socket;                          *)
(*   SpecLive  the receive side of Spec under fair scheduling;             *)
(*   SpecPub   one ring with write and read split into their steps;        *)
(*   SpecWrap  one ring with its indices about to roll over;               *)
(*   SpecTx    the transmit path against a kernel that completes a         *)
(*             descriptor at once or later;                                *)
(*   SpecLink  the 16-bit link stores of Umem::new and Umem::free for      *)
(*             small pools and pools of about 2^16 chunks.                 *)
(***************************************************************************)
EXTENDS Integers, Sequences, FiniteSets, TLC

(***************************************************************************)
(* Bounds of the model.                                                    *)
(***************************************************************************)
MaxEntries == 2
MaxSizeLog == 1
MaxKernelSizeLog == 0
MaxIdx == 2
MaxPoolEntries == 3
MaxRingLog == 2
MaxRingOps == 6
MaxUmemOps == 6
MaxCfgSize == 3
MaxPubLog == 1
MaxPubOps == 4
MaxWrapLog == 1
MaxWrapBack == 2
MaxWrapOps == 4
MaxLinkSmall == 3
MaxLinkOver == 2

(***************************************************************************)
(* Program constants.                                                      *)
(***************************************************************************)
U16Max == 65535
HeadRoomSize == 2
TwoK == 2048
FourK == 4096
FrameLen == 64
KernelFrameLen == 60

None == -1

VARIABLES
    umem,        \* Inner.umem: [pages, alignment, free_page_id]
    tx,          \* Inner.tx, XdpRing<Writer>
    rx,          \* Inner.rx, XdpRing<Reader>
    cr,          \* Inner.cr, XdpRing<Reader>
    fr,          \* Inner.fr, XdpRing<Writer>
    kernel_rx,   \* descriptors the kernel took from Fill and has not yet put on RX
    kernel_tx,   \* descriptors the kernel took from TX and has not yet put on Completion
    panicked,    \* a panic unwound the calling thread
    last,        \* SpecRing, SpecUmem: the operation of the latest step and its result
    ring,        \* SpecRing: the ring under test
    written,     \* SpecRing: descriptors accepted by Writer.write, in order
    readlog,     \* SpecRing: descriptors returned by Reader.read, in order
    hist,        \* SpecUmem: the operations performed since Umem::new
    payload,     \* SpecData: per chunk, the frame its packet area holds
    cfg,         \* SpecLife: the Config handed to XdpSocket::new
    pc,          \* SpecLife: the next step of XdpSocket::new or of the drop
    sys,         \* SpecLife: the process's fd, ring mappings and UMEM allocation
    result,      \* SpecLife: what XdpSocket::new returned
    events,      \* SpecLife: the releases performed, in order
    wr,          \* SpecPub: the Writer.write call in progress
    rd,          \* SpecPub: the Reader.read call in progress
    overflow_checks, \* SpecWrap: the build panics on integer overflow
    kernel_defers,   \* SpecTx: the kernel completes a TX descriptor in a later step
    link             \* SpecLink: the link store under test and what it stored

vars == <<umem, tx, rx, cr, fr, kernel_rx, kernel_tx, panicked, last,
          ring, written, readlog, hist,
          payload, cfg, pc, sys, result, events, wr, rd, overflow_checks,
          kernel_defers, link>>

adapterVars == <<umem, tx, rx, cr, fr, kernel_rx, kernel_tx, panicked>>
ringVars == <<ring, written, readlog>>
dataVars == <<payload>>
lifeVars == <<cfg, pc, sys, result, events>>
pubVars == <<wr, rd>>
auxVars == <<dataVars, lifeVars, pubVars, overflow_checks, kernel_defers, link>>

(***************************************************************************)
(* Fixed-width arithmetic.                                                 *)
(***************************************************************************)
AsU16(x) == x % (U16Max + 1)

RECURSIVE BitAnd(_, _)
BitAnd(a, b) ==
    IF a = 0 \/ b = 0 THEN 0
    ELSE (a % 2) * (b % 2) + 2 * BitAnd(a \div 2, b \div 2)

\* A u32 is kept as two 16-bit halves, so that the ring counters have their
\* full width: 2^32 itself is not a number TLC can hold.  Add32 and Sub32
\* wrap, as `+= 1` and `p - c` do in a build without overflow checks; in a
\* build with overflow checks the same expressions panic where these wrap,
\* which counters that start at zero do not reach within MaxIdx or
\* MaxRingOps steps.
U32(n) == [hi |-> n \div (U16Max + 1), lo |-> n % (U16Max + 1)]

ToInt(a) == a.hi * (U16Max + 1) + a.lo

Add32(a, n) ==
    LET s == a.lo + n
    IN  [hi |-> (a.hi + (s \div (U16Max + 1))) % (U16Max + 1),
         lo |-> s % (U16Max + 1)]

Sub32(a, b) ==
    LET borrow == IF a.lo < b.lo THEN 1 ELSE 0
    IN  [hi |-> (a.hi - b.hi - borrow + U16Max + 1) % (U16Max + 1),
         lo |-> (a.lo - b.lo + U16Max + 1) % (U16Max + 1)]

Gt32(a, b) == a.hi > b.hi \/ (a.hi = b.hi /\ a.lo > b.lo)

And32(a, b) == [hi |-> BitAnd(a.hi, b.hi), lo |-> BitAnd(a.lo, b.lo)]

RECURSIVE Pow2(_)
Pow2(k) == IF k = 0 THEN 1 ELSE 2 * Pow2(k - 1)

(***************************************************************************)
(* Descriptors.                                                            *)
(***************************************************************************)
XdpDesc(addr, len) == [addr |-> addr, len |-> len, options |-> 0]

ZeroDesc == XdpDesc(0, 0)

NoDesc == XdpDesc(None, 0)

(***************************************************************************)
(* HeadRoom: the 16-bit link word at the start of every chunk.             *)
(***************************************************************************)
HeadRoom_free_page_id(word) == IF word = U16Max THEN None ELSE word

HeadRoom_set_free_page_id(page_id) == IF page_id = None THEN U16Max ELSE page_id

(***************************************************************************)
(* Umem.                                                                   *)
(***************************************************************************)
ChunkAlignment == {TwoK, FourK}

UmemSize(u) == Cardinality(DOMAIN u.pages)

Capacity(u) == u.alignment - HeadRoomSize

\* Umem::new threading the free list from the last page down to page 0.
UmemNew_Reversed(entries, alignment) ==
    [pages |-> [i \in 0..(entries - 1) |->
                    HeadRoom_set_free_page_id(
                        IF i = 0 THEN None ELSE AsU16(i - 1))],
     alignment |-> alignment,
     free_page_id |-> AsU16(entries - 1)]

UmemNew(entries, alignment) ==
    [pages |-> [i \in 0..(entries - 1) |->
                    HeadRoom_set_free_page_id(
                        IF i = entries - 1 THEN None ELSE AsU16(i + 1))],
     alignment |-> alignment,
     free_page_id |-> 0]

page_id_from(u, desc) == desc.addr \div u.alignment

\* desc_addr_from pointing at the chunk start instead of past the headroom.
desc_addr_from_ChunkStart(u, page_id) == page_id * u.alignment

desc_addr_from(u, page_id) == (page_id * u.alignment) + HeadRoomSize

\* Umem::free linking the page in but leaving a non-empty list's head as it was.
UmemFree_KeepHead(u, page_id) ==
    LET last_free_page_id == u.free_page_id
        pages1 == IF last_free_page_id # None
                  THEN [u.pages EXCEPT ![page_id] =
                            HeadRoom_set_free_page_id(last_free_page_id)]
                  ELSE u.pages
        u1 == [u EXCEPT !.pages = pages1,
                        !.free_page_id = IF last_free_page_id # None
                                         THEN last_free_page_id
                                         ELSE AsU16(page_id)]
    IN  [umem |-> u1,
         desc |-> XdpDesc((page_id * u1.alignment) + HeadRoomSize,
                          u1.alignment - HeadRoomSize)]

UmemFree(u, page_id) ==
    LET last_free_page_id == u.free_page_id
        pages1 == IF last_free_page_id # None
                  THEN [u.pages EXCEPT ![page_id] =
                            HeadRoom_set_free_page_id(last_free_page_id)]
                  ELSE u.pages
        u1 == [u EXCEPT !.pages = pages1, !.free_page_id = AsU16(page_id)]
    IN  [umem |-> u1,
         desc |-> XdpDesc(desc_addr_from(u1, page_id), u1.alignment - HeadRoomSize)]

\* Umem::write without clearing the popped page's link.
UmemWrite_KeepLink(u, len) ==
    IF u.free_page_id = None
    THEN [res |-> "wouldblock", umem |-> u, desc |-> NoDesc]
    ELSE LET id == u.free_page_id
             next_free_page_id == HeadRoom_free_page_id(u.pages[id])
         IN  IF len > Capacity(u)
             THEN [res |-> "panic", umem |-> u, desc |-> NoDesc]
             ELSE [res |-> "ok",
                   umem |-> [u EXCEPT !.free_page_id = next_free_page_id],
                   desc |-> XdpDesc((id * u.alignment) + HeadRoomSize, len)]

UmemWrite(u, len) ==
    IF u.free_page_id = None
    THEN [res |-> "wouldblock", umem |-> u, desc |-> NoDesc]
    ELSE LET id == u.free_page_id
             next_free_page_id == HeadRoom_free_page_id(u.pages[id])
             cleared == [u EXCEPT !.pages[id] = HeadRoom_set_free_page_id(None)]
         IN  IF len > Capacity(u)
             THEN \* write_packet: the slice index is out of range
                  [res |-> "panic", umem |-> cleared, desc |-> NoDesc]
             ELSE [res |-> "ok",
                   umem |-> [cleared EXCEPT !.free_page_id = next_free_page_id],
                   desc |-> XdpDesc(desc_addr_from(u, id), len)]

packet_descriptors(u) ==
    [k \in 1..UmemSize(u) |->
        XdpDesc(desc_addr_from(u, k - 1), u.alignment - HeadRoomSize)]

(***************************************************************************)
(* The free list as a sequence of page ids: the walk from free_page_id     *)
(* along the headroom links, cut after `fuel` steps.                       *)
(***************************************************************************)
RECURSIVE Walk(_, _, _)
Walk(u, id, fuel) ==
    IF id = None \/ fuel = 0 \/ id \notin DOMAIN u.pages THEN <<>>
    ELSE <<id>> \o Walk(u, HeadRoom_free_page_id(u.pages[id]), fuel - 1)

FreeList(u) == Walk(u, u.free_page_id, UmemSize(u) + 1)

SeqSet(s) == {s[k] : k \in 1..Len(s)}

FreeSet(u) == SeqSet(FreeList(u))

(***************************************************************************)
(* Rings.                                                                  *)
(***************************************************************************)
XdpRingNew(size) ==
    [producer |-> U32(0),
     consumer |-> U32(0),
     descriptors |-> [k \in 0..(size - 1) |-> ZeroDesc],
     mask |-> U32(size - 1)]

RingSize(r) == ToInt(r.mask) + 1

\* Reader.read taking the slot at the producer index instead of the consumer index.
ReaderRead_ProducerSlot(r) ==
    LET c == r.consumer
        p == r.producer
    IN  IF c = p
        THEN [desc |-> NoDesc, ring |-> r]
        ELSE [desc |-> r.descriptors[ToInt(And32(p, r.mask))],
              ring |-> [r EXCEPT !.consumer = Add32(c, 1)]]

ReaderRead(r) ==
    LET c == r.consumer
        p == r.producer
    IN  IF c = p
        THEN [desc |-> NoDesc, ring |-> r]
        ELSE [desc |-> r.descriptors[ToInt(And32(c, r.mask))],
              ring |-> [r EXCEPT !.consumer = Add32(c, 1)]]

\* Writer.write testing (p - c) > mask + 1: one descriptor too many is accepted.
WriterWrite_OffByOne(r, desc) ==
    LET c == r.consumer
        p == r.producer
    IN  IF Gt32(Sub32(p, c), Add32(r.mask, 1))
        THEN [ok |-> FALSE, ring |-> r]
        ELSE [ok |-> TRUE,
              ring |-> [r EXCEPT !.descriptors[ToInt(And32(p, r.mask))] = desc,
                                 !.producer = Add32(p, 1)]]

\* Writer.write testing (p - c) >= mask: the last free slot is never used.
WriterWrite_FullEarly(r, desc) ==
    LET c == r.consumer
        p == r.producer
    IN  IF ~Gt32(r.mask, Sub32(p, c))
        THEN [ok |-> FALSE, ring |-> r]
        ELSE [ok |-> TRUE,
              ring |-> [r EXCEPT !.descriptors[ToInt(And32(p, r.mask))] = desc,
                                 !.producer = Add32(p, 1)]]

WriterWrite(r, desc) ==
    LET c == r.consumer
        p == r.producer
    IN  IF Gt32(Sub32(p, c), r.mask)
        THEN [ok |-> FALSE, ring |-> r]
        ELSE [ok |-> TRUE,
              ring |-> [r EXCEPT !.descriptors[ToInt(And32(p, r.mask))] = desc,
                                 !.producer = Add32(p, 1)]]

\* The descriptors written and not yet read, oldest first.
Occupancy(r) == ToInt(Sub32(r.producer, r.consumer))

Unread(r) ==
    [k \in 1..Occupancy(r) |->
        r.descriptors[ToInt(And32(Add32(r.consumer, k - 1), r.mask))]]

(***************************************************************************)
(* XdpSocket::new: the Fill ring is preloaded with the descriptor of every *)
(* page; a would-block of fr.write is dropped.                             *)
(***************************************************************************)
\* The preload writing the descriptors from the last page down.
RECURSIVE Preload_LastFirst(_, _)
Preload_LastFirst(r, descs) ==
    IF descs = <<>> THEN r
    ELSE Preload_LastFirst(WriterWrite(r, descs[Len(descs)]).ring,
                           SubSeq(descs, 1, Len(descs) - 1))

RECURSIVE Preload(_, _)
Preload(r, descs) ==
    IF descs = <<>> THEN r
    ELSE Preload(WriterWrite(r, Head(descs)).ring, Tail(descs))

\* Sizes of the rings the user side writes (TX, Fill) and of the rings the
\* kernel writes (RX, Completion).
RingSizes == {Pow2(k) : k \in 0..MaxSizeLog}
KernelRingSizes == {Pow2(k) : k \in 0..MaxKernelSizeLog}

Op(op, res, page) == [op |-> op, res |-> res, page |-> page]

\* The variables a specification does not drive keep these values.
InitDataIdle == payload = <<>>

InitLifeIdle ==
    /\ cfg = None
    /\ pc = "idle"
    /\ sys = None
    /\ result = None
    /\ events = <<>>

InitPubIdle ==
    /\ wr = None
    /\ rd = None

InitBuildIdle == overflow_checks = FALSE

InitKernelIdle == kernel_defers = TRUE

InitLinkIdle == link = [op |-> "idle"]

InitRingIdle ==
    /\ ring = XdpRingNew(1)
    /\ written = <<>>
    /\ readlog = <<>>

InitOther ==
    /\ InitRingIdle
    /\ hist = <<>>
    /\ InitLifeIdle
    /\ InitPubIdle
    /\ InitBuildIdle
    /\ InitKernelIdle
    /\ InitLinkIdle

InitAdapter ==
    /\ \E entries \in 1..MaxEntries, alignment \in ChunkAlignment :
           umem = UmemNew(entries, alignment)
    /\ \E size \in RingSizes : tx = XdpRingNew(size)
    /\ \E size \in KernelRingSizes : rx = XdpRingNew(size)
    /\ \E size \in KernelRingSizes : cr = XdpRingNew(size)
    /\ \E size \in RingSizes : fr = Preload(XdpRingNew(size), packet_descriptors(umem))
    /\ kernel_rx = <<>>
    /\ kernel_tx = <<>>
    /\ panicked = FALSE
    /\ last = Op("new", "ok", None)
    /\ InitOther

Init == InitAdapter /\ InitDataIdle

(***************************************************************************)
(* Device::receive: what the call reads, frees and re-posts.               *)
(***************************************************************************)
\* Device::receive leaving the descriptor it read on the RX ring.
ReceiveSteps_KeepRx ==
    LET r == ReaderRead(rx)
    IN  IF r.desc = NoDesc
        THEN [desc |-> NoDesc, page |-> None, rx |-> rx, umem |-> umem,
              fr |-> fr, reposted |-> FALSE]
        ELSE LET page_id == page_id_from(umem, r.desc)
                 f == UmemFree(umem, page_id)
                 w == WriterWrite(fr, f.desc)
             IN  [desc |-> r.desc, page |-> page_id, rx |-> rx,
                  umem |-> f.umem, fr |-> w.ring, reposted |-> w.ok]

ReceiveSteps ==
    LET r == ReaderRead(rx)
    IN  IF r.desc = NoDesc
        THEN [desc |-> NoDesc, page |-> None, rx |-> rx, umem |-> umem,
              fr |-> fr, reposted |-> FALSE]
        ELSE LET page_id == page_id_from(umem, r.desc)
                 f == UmemFree(umem, page_id)
                 w == WriterWrite(fr, f.desc)
             IN  [desc |-> r.desc, page |-> page_id, rx |-> r.ring,
                  umem |-> f.umem, fr |-> w.ring, reposted |-> w.ok]

Receive ==
    /\ ~panicked
    /\ LET s == ReceiveSteps
       IN  /\ rx' = s.rx
           /\ umem' = s.umem
           /\ fr' = s.fr
    /\ UNCHANGED <<tx, cr, kernel_rx, kernel_tx, panicked, last, ringVars, hist, auxVars>>

(***************************************************************************)
(* TxToken::consume with a frame of `len` bytes: the Completion read and   *)
(* free, the umem.write, the TX write and the free when TX is full.        *)
(***************************************************************************)
TxLens == {FrameLen, Capacity(umem) + 1}

\* TxToken::consume keeping the chunk when the TX write would block.
ConsumeSteps_NoFree(len) ==
    LET c == ReaderRead(cr)
        u1 == IF c.desc # NoDesc
              THEN UmemFree(umem, page_id_from(umem, c.desc)).umem
              ELSE umem
        w == UmemWrite(u1, len)
        t == IF w.res = "ok" THEN WriterWrite(tx, w.desc) ELSE [ok |-> FALSE, ring |-> tx]
    IN  [cr |-> c.ring,
         reclaimed |-> IF c.desc # NoDesc THEN page_id_from(umem, c.desc) ELSE None,
         res |-> w.res,
         page |-> IF w.res = "ok" THEN page_id_from(w.umem, w.desc) ELSE None,
         desc |-> w.desc,
         sent |-> t.ok,
         tx |-> t.ring,
         umem |-> w.umem]

\* TxToken::consume without the Completion read that precedes umem.write.
ConsumeSteps_NoDrain(len) ==
    LET w == UmemWrite(umem, len)
        t == IF w.res = "ok" THEN WriterWrite(tx, w.desc) ELSE [ok |-> FALSE, ring |-> tx]
    IN  [cr |-> cr,
         reclaimed |-> None,
         res |-> w.res,
         page |-> IF w.res = "ok" THEN page_id_from(w.umem, w.desc) ELSE None,
         desc |-> w.desc,
         sent |-> t.ok,
         tx |-> t.ring,
         umem |-> IF w.res = "ok" /\ ~t.ok
                  THEN UmemFree(w.umem, page_id_from(w.umem, w.desc)).umem
                  ELSE w.umem]

ConsumeSteps(len) ==
    LET c == ReaderRead(cr)
        u1 == IF c.desc # NoDesc
              THEN UmemFree(umem, page_id_from(umem, c.desc)).umem
              ELSE umem
        w == UmemWrite(u1, len)
        t == IF w.res = "ok" THEN WriterWrite(tx, w.desc) ELSE [ok |-> FALSE, ring |-> tx]
    IN  [cr |-> c.ring,
         reclaimed |-> IF c.desc # NoDesc THEN page_id_from(umem, c.desc) ELSE None,
         res |-> w.res,
         page |-> IF w.res = "ok" THEN page_id_from(w.umem, w.desc) ELSE None,
         desc |-> w.desc,
         sent |-> t.ok,
         tx |-> t.ring,
         umem |-> IF w.res = "ok" /\ ~t.ok
                  THEN UmemFree(w.umem, page_id_from(w.umem, w.desc)).umem
                  ELSE w.umem]

TxConsumeCore(len) ==
    /\ ~panicked
    /\ (ToInt(tx.producer) < MaxIdx \/ Occupancy(tx) = RingSize(tx))
    /\ LET s == ConsumeSteps(len)
       IN  /\ cr' = s.cr
           /\ umem' = s.umem
           /\ tx' = s.tx
           /\ panicked' = (s.res = "panic")
    /\ UNCHANGED <<rx, fr, kernel_rx, kernel_tx, last, ringVars, hist,
                   lifeVars, pubVars, overflow_checks, kernel_defers, link>>

TxConsume(len) == TxConsumeCore(len) /\ UNCHANGED payload

(***************************************************************************)
(* The kernel: consumer of Fill and TX, producer of RX and Completion,     *)
(* following the same index protocol as the user side.                     *)
(***************************************************************************)
KernelFillConsume ==
    /\ ~panicked
    /\ LET r == ReaderRead(fr)
       IN  /\ r.desc # NoDesc
           /\ fr' = r.ring
           /\ kernel_rx' = Append(kernel_rx, r.desc)
    /\ UNCHANGED <<umem, tx, rx, cr, kernel_tx, panicked, last, ringVars, hist, auxVars>>

KernelRxProduceCore ==
    /\ ~panicked
    /\ kernel_rx # <<>>
    /\ ToInt(rx.producer) < MaxIdx
    /\ LET d == Head(kernel_rx)
           desc == XdpDesc(d.addr, KernelFrameLen)
           w == WriterWrite(rx, desc)
       IN  /\ w.ok
           /\ rx' = w.ring
           /\ kernel_rx' = Tail(kernel_rx)
    /\ UNCHANGED <<umem, tx, cr, fr, kernel_tx, panicked, last, ringVars, hist,
                   lifeVars, pubVars, overflow_checks, kernel_defers, link>>

KernelRxProduce == KernelRxProduceCore /\ UNCHANGED payload

KernelTxConsume ==
    /\ ~panicked
    /\ LET r == ReaderRead(tx)
       IN  /\ r.desc # NoDesc
           /\ tx' = r.ring
           /\ kernel_tx' = Append(kernel_tx, r.desc)
    /\ UNCHANGED <<umem, rx, cr, fr, kernel_rx, panicked, last, ringVars, hist, auxVars>>

KernelCrProduce ==
    /\ ~panicked
    /\ kernel_tx # <<>>
    /\ LET d == Head(kernel_tx)
           w == WriterWrite(cr, d)
       IN  /\ w.ok
           /\ cr' = w.ring
           /\ kernel_tx' = Tail(kernel_tx)
    /\ UNCHANGED <<umem, tx, rx, fr, kernel_rx, panicked, last, ringVars, hist, auxVars>>

Next ==
    \/ Receive
    \/ \E len \in TxLens : TxConsume(len)
    \/ KernelFillConsume
    \/ KernelRxProduce
    \/ KernelTxConsume
    \/ KernelCrProduce

Spec == Init /\ [][Next]_vars

(***************************************************************************)
(* SpecRing: one ring, the Writer handle on one side and the Reader handle *)
(* on the other.  `written` and `readlog` record what went in and what     *)
(* came out.                                                               *)
(***************************************************************************)
RingDescs == {XdpDesc(desc_addr_from([alignment |-> TwoK], i), FrameLen) : i \in 0..2}

InitAdapterIdle ==
    /\ umem = UmemNew(1, TwoK)
    /\ tx = XdpRingNew(1)
    /\ rx = XdpRingNew(1)
    /\ cr = XdpRingNew(1)
    /\ fr = XdpRingNew(1)
    /\ kernel_rx = <<>>
    /\ kernel_tx = <<>>
    /\ panicked = FALSE

InitRing ==
    /\ \E k \in 0..MaxRingLog : ring = XdpRingNew(Pow2(k))
    /\ written = <<>>
    /\ readlog = <<>>
    /\ hist = <<>>
    /\ last = Op("new", "ok", None)
    /\ InitAdapterIdle
    /\ InitDataIdle
    /\ InitLifeIdle
    /\ InitPubIdle
    /\ InitBuildIdle
    /\ InitKernelIdle
    /\ InitLinkIdle

RingWrite(desc) ==
    /\ Len(written) < MaxRingOps
    /\ LET w == WriterWrite(ring, desc)
       IN  /\ ring' = w.ring
           /\ written' = IF w.ok THEN Append(written, desc) ELSE written
           /\ last' = Op("write", IF w.ok THEN "ok" ELSE "wouldblock",
                         desc.addr \div TwoK)
    /\ UNCHANGED <<adapterVars, readlog, hist, auxVars>>

RingRead ==
    /\ LET r == ReaderRead(ring)
       IN  /\ ring' = r.ring
           /\ readlog' = IF r.desc # NoDesc THEN Append(readlog, r.desc) ELSE readlog
           /\ last' = IF r.desc # NoDesc
                      THEN Op("read", "ok", r.desc.addr \div TwoK)
                      ELSE Op("read", "none", None)
    /\ UNCHANGED <<adapterVars, written, hist, auxVars>>

NextRing ==
    \/ \E desc \in RingDescs : RingWrite(desc)
    \/ RingRead

SpecRing == InitRing /\ [][NextRing]_vars

(***************************************************************************)
(* SpecUmem: the pool alone.  free is applied to chunks that are not on    *)
(* the free list, the only use its contract covers.                        *)
(***************************************************************************)
UmemLens == {FrameLen, Capacity(umem), Capacity(umem) + 1}

InitUmem ==
    /\ \E entries \in 1..MaxPoolEntries, alignment \in ChunkAlignment :
           umem = UmemNew(entries, alignment)
    /\ tx = XdpRingNew(1)
    /\ rx = XdpRingNew(1)
    /\ cr = XdpRingNew(1)
    /\ fr = XdpRingNew(1)
    /\ kernel_rx = <<>>
    /\ kernel_tx = <<>>
    /\ panicked = FALSE
    /\ last = Op("new", "ok", None)
    /\ InitOther
    /\ InitDataIdle

PoolWrite(len) ==
    /\ ~panicked
    /\ Len(hist) < MaxUmemOps
    /\ LET w == UmemWrite(umem, len)
       IN  /\ umem' = w.umem
           /\ panicked' = (w.res = "panic")
           /\ last' = Op("write", w.res,
                         IF w.res = "ok" THEN page_id_from(umem, w.desc) ELSE None)
    /\ hist' = Append(hist, last')
    /\ UNCHANGED <<tx, rx, cr, fr, kernel_rx, kernel_tx, ringVars, auxVars>>

PoolFree(page_id) ==
    /\ ~panicked
    /\ Len(hist) < MaxUmemOps
    /\ page_id \notin FreeSet(umem)
    /\ umem' = UmemFree(umem, page_id).umem
    /\ last' = Op("free", "ok", page_id)
    /\ hist' = Append(hist, last')
    /\ UNCHANGED <<tx, rx, cr, fr, kernel_rx, kernel_tx, panicked, ringVars, auxVars>>

NextUmem ==
    \/ \E len \in UmemLens : PoolWrite(len)
    \/ \E page_id \in DOMAIN umem.pages : PoolFree(page_id)

SpecUmem == InitUmem /\ [][NextUmem]_vars

(***************************************************************************)
(* Where a chunk is: on the free list, or described by a descriptor that   *)
(* is unread on a ring or held by the kernel between two rings.            *)
(***************************************************************************)
Occurrences(page_id, descs) ==
    Cardinality({k \in 1..Len(descs) : page_id_from(umem, descs[k]) = page_id})

OnFreeList(page_id) == IF page_id \in FreeSet(umem) THEN 1 ELSE 0

Holdings(page_id) ==
    OnFreeList(page_id)
    + Occurrences(page_id, Unread(fr)) + Occurrences(page_id, kernel_rx)
    + Occurrences(page_id, Unread(rx))
    + Occurrences(page_id, Unread(tx)) + Occurrences(page_id, kernel_tx)
    + Occurrences(page_id, Unread(cr))

PagesOf(descs) == {page_id_from(umem, descs[k]) : k \in 1..Len(descs)}

\* Chunks whose payload the kernel owns: on Fill, on TX, or taken from Fill
\* and not yet delivered on RX.
KernelOwned == PagesOf(Unread(fr)) \cup PagesOf(Unread(tx)) \cup PagesOf(kernel_rx)

\* C1: chunk conservation.  In every reachable state every chunk is in
\* exactly one place: on the free list, or described by exactly one
\* descriptor on Fill, with the kernel, on RX, on TX or on Completion; no
\* chunk is both on the free list and described by a ring descriptor.
ChunkConservation == \A page_id \in DOMAIN umem.pages : Holdings(page_id) = 1

(***************************************************************************)
(* The page id at which the walk from free_page_id stops within `fuel`     *)
(* links: None when the list ends.                                         *)
(***************************************************************************)
RECURSIVE WalkEnd(_, _, _)
WalkEnd(u, id, fuel) ==
    IF id = None \/ fuel = 0 \/ id \notin DOMAIN u.pages THEN id
    ELSE WalkEnd(u, HeadRoom_free_page_id(u.pages[id]), fuel - 1)

NoDuplicates(s) == \A j, k \in 1..Len(s) : s[j] = s[k] => j = k

\* C2: free-list acyclicity.  In every reachable state the walk from
\* free_page_id along the headroom links reaches none within `entries`
\* steps, visits no page twice and stays inside [0, entries).
FreeListAcyclic ==
    /\ WalkEnd(umem, umem.free_page_id, UmemSize(umem)) = None
    /\ NoDuplicates(FreeList(umem))
    /\ FreeSet(umem) \subseteq DOMAIN umem.pages

\* C3: kernel ownership of payload.  Whenever TxToken::consume copies a
\* frame into a chunk through umem.write, that chunk was not referenced by a
\* descriptor on the Fill ring or the TX ring, nor held by the kernel
\* between Fill and RX, when the call was made.
NoWriteToKernelChunk ==
    [][\A len \in TxLens :
          (TxConsume(len) /\ ConsumeSteps(len).res = "ok")
              => ConsumeSteps(len).page \notin KernelOwned]_vars

(***************************************************************************)
(* Descriptors the core emits.                                             *)
(***************************************************************************)
Canonical(desc) ==
    /\ desc.addr % umem.alignment = HeadRoomSize
    /\ desc.len <= umem.alignment - HeadRoomSize

\* The slots of a ring written so far: slot k is first written by the
\* (k+1)-th write.
WrittenSlots(r) == {k \in DOMAIN r.descriptors : k < ToInt(r.producer)}

WriteLens == {0, 1, FrameLen, Capacity(umem) - 1, Capacity(umem),
              Capacity(umem) + 1, umem.alignment}

\* C4: descriptor canonicality.  Every descriptor on the Fill ring or the
\* TX ring, and every descriptor umem.write, umem.free and
\* packet_descriptors return for any page and any buffer length, has
\* addr mod alignment = H and len <= alignment - H.
DescriptorCanonicality ==
    /\ \A k \in WrittenSlots(fr) : Canonical(fr.descriptors[k])
    /\ \A k \in WrittenSlots(tx) : Canonical(tx.descriptors[k])
    /\ \A page_id \in DOMAIN umem.pages : Canonical(UmemFree(umem, page_id).desc)
    /\ \A len \in WriteLens :
           LET w == UmemWrite(umem, len)
           IN  w.res = "ok" => Canonical(w.desc)
    /\ \A k \in DOMAIN packet_descriptors(umem) :
           Canonical(packet_descriptors(umem)[k])

PreloadCount == IF UmemSize(umem) < RingSize(fr) THEN UmemSize(umem) ELSE RingSize(fr)

\* A frame's descriptor is on the TX ring and receive has re-posted a chunk
\* to the Fill ring after the startup preload.
DescriptorCanonicalityWitness ==
    /\ Occupancy(tx) >= 1
    /\ ToInt(fr.producer) > PreloadCount
    /\ UmemSize(umem) >= 2

Le32(a, b) == ~Gt32(a, b)

\* C5: ring bound.  For each of the four rings, in every reachable state,
\* the wrapping difference producer - consumer is at most the ring size.
RingBound ==
    \A r \in {tx, rx, cr, fr} :
        Le32(Sub32(r.producer, r.consumer), U32(RingSize(r)))

\* The TX ring and the Fill ring, of two slots each, are both full, the
\* Fill ring after receive has re-posted a chunk (its indices have passed
\* the first lap).
RingBoundWitness ==
    /\ RingSize(tx) = 2
    /\ Occupancy(tx) = RingSize(tx)
    /\ RingSize(fr) = 2
    /\ Occupancy(fr) = RingSize(fr)
    /\ ToInt(fr.producer) > RingSize(fr)

(***************************************************************************)
(* Claims about one ring (SpecRing).                                       *)
(***************************************************************************)
Pending == Len(written) - Len(readlog)

\* C6: Writer.write succeeds if and only if the ring holds strictly fewer
\* than `size` unread descriptors before the call; a would-block leaves the
\* producer index, the consumer index and every slot unchanged; and the
\* write that follows a successful read on a full ring succeeds.
WriteIffNotFull ==
    [][last'.op = "write" =>
          /\ (last'.res = "ok") <=> (Pending < RingSize(ring))
          /\ (last'.res # "ok") => (ring' = ring)
          /\ (last.op = "read" /\ last.res = "ok" /\ Pending = RingSize(ring) - 1)
                 => (last'.res = "ok")]_vars

\* A write was refused on a full ring of four slots after the counters had
\* advanced past the first lap.
WriteIffNotFullWitness ==
    /\ last.op = "write"
    /\ last.res = "wouldblock"
    /\ RingSize(ring) = 4
    /\ Len(readlog) >= 1

\* C7: ring FIFO.  The descriptors returned by successive reads are the
\* written descriptors in write order, each once; what is still unread in
\* the ring is exactly the rest of them, in order.
RingFifo ==
    /\ Len(readlog) <= Len(written)
    /\ readlog = SubSeq(written, 1, Len(readlog))
    /\ Unread(ring) = SubSeq(written, Len(readlog) + 1, Len(written))

\* Distinct descriptors were read after the writer had lapped the ring.
RingFifoWitness ==
    /\ last.op = "read"
    /\ last.res = "ok"
    /\ Len(readlog) >= 3
    /\ readlog[1] # readlog[2]
    /\ readlog[2] # readlog[3]
    /\ Len(written) > RingSize(ring)
    /\ RingSize(ring) > 1

(***************************************************************************)
(* Claims about the pool (SpecUmem).                                       *)
(***************************************************************************)
OkLens == {len \in UmemLens : len <= Capacity(umem)}

\* C8: umem round trip.  The page of the descriptor umem.write returns is
\* the page that was at free_page_id when write was called, and after an
\* immediately following umem.free of that page the next umem.write
\* returns the same page.
UmemRoundTrip ==
    [][/\ (last'.op = "write" /\ last'.res = "ok")
           => (umem.free_page_id # None /\ last'.page = umem.free_page_id)
       /\ (last.op = "write" /\ last.res = "ok"
             /\ last'.op = "free" /\ last'.page = last.page)
           => \A len \in OkLens :
                  LET w == UmemWrite(umem', len)
                  IN  /\ w.res = "ok"
                      /\ page_id_from(umem', w.desc) = last.page]_vars

\* A page other than page 0 was written and freed again while other pages
\* were still on the free list.
UmemRoundTripWitness ==
    /\ Len(hist) >= 2
    /\ hist[Len(hist)].op = "free"
    /\ hist[Len(hist) - 1] = Op("write", "ok", hist[Len(hist)].page)
    /\ hist[Len(hist)].page > 0
    /\ Len(FreeList(umem)) >= 2

\* C9: free restores exactly once.  free(i) on a chunk that is not on the
\* free list yields the free list i followed by the previous free list; when
\* the list was empty no link is stored and chunk i's link already encodes
\* none.
FreeRestoresOnce ==
    [][last'.op = "free" =>
          /\ FreeList(umem') = <<last'.page>> \o FreeList(umem)
          /\ Len(FreeList(umem')) = Len(FreeList(umem)) + 1
          /\ (umem.free_page_id = None) =>
                 /\ umem'.pages = umem.pages
                 /\ HeadRoom_free_page_id(umem.pages[last'.page]) = None]_vars

\* A chunk was freed onto an empty free list of a pool of several chunks.
FreeRestoresOnceWitness ==
    /\ last.op = "free"
    /\ UmemSize(umem) >= 2
    /\ FreeList(umem) = <<last.page>>
    /\ last.page > 0

AllWritesOk(h) == \A k \in 1..Len(h) : h[k].op = "write" /\ h[k].res # "panic"

\* C10: pool exhaustion.  From a fresh pool of N entries, N consecutive
\* writes return pages 0, 1, ..., N-1 in that order, and the (N+1)-th
\* returns would-block and leaves free_page_id and every link unchanged.
PoolExhaustion ==
    [][(last'.op = "write" /\ AllWritesOk(hist')) =>
          /\ (Len(hist') <= UmemSize(umem)) =>
                 (last'.res = "ok" /\ last'.page = Len(hist') - 1)
          /\ (Len(hist') = UmemSize(umem) + 1) =>
                 (last'.res = "wouldblock" /\ umem' = umem)]_vars

\* The (N+1)-th consecutive write on a fresh pool of N >= 2 entries
\* returned would-block.
PoolExhaustionWitness ==
    /\ AllWritesOk(hist)
    /\ UmemSize(umem) >= 2
    /\ Len(hist) = UmemSize(umem) + 1
    /\ last.res = "wouldblock"

(***************************************************************************)
(* SpecData: the adapter of Spec together with the bytes in each chunk's   *)
(* packet area.  A chunk holds the latest frame written at its start: by   *)
(* Umem::new (zeroes), by the kernel before it publishes an RX descriptor, *)
(* or by Umem::write_packet.  Frame(by, len) stands for the first `len`    *)
(* bytes of a frame from `by`.                                             *)
(***************************************************************************)
Frame(by, len) == [by |-> by, len |-> len]

write_packet(p, page_id, by, len) == [p EXCEPT ![page_id] = Frame(by, len)]

\* read_packet: `len` bytes from offset (addr % alignment) - headroom.
read_packet(u, p, desc) ==
    LET offset == (desc.addr % u.alignment) - HeadRoomSize
        held == p[page_id_from(u, desc)]
    IN  IF offset = 0 /\ desc.len <= held.len
        THEN Frame(held.by, desc.len)
        ELSE Frame("mixed", desc.len)

InitData ==
    /\ InitAdapter
    /\ payload = [i \in DOMAIN umem.pages |-> Frame("zero", Capacity(umem))]

TxConsumeData(len) ==
    /\ TxConsumeCore(len)
    /\ LET s == ConsumeSteps(len)
       IN  payload' = IF s.res = "ok"
                      THEN write_packet(payload, s.page, "user", len)
                      ELSE payload

KernelRxProduceData ==
    /\ KernelRxProduceCore
    /\ payload' = write_packet(payload, page_id_from(umem, Head(kernel_rx)),
                               "kernel", KernelFrameLen)

NextData ==
    \/ Receive
    \/ \E len \in TxLens : TxConsumeData(len)
    \/ KernelFillConsume
    \/ KernelRxProduceData
    \/ KernelTxConsume
    \/ KernelCrProduce

SpecData == InitData /\ [][NextData]_vars

(***************************************************************************)
(* C11  RX delivery: every receive that finds the RX ring non-empty        *)
(* returns the bytes the kernel wrote for the oldest unread RX descriptor  *)
(* (desc.len of them), consumes exactly that descriptor and re-posts the   *)
(* chunk to the Fill ring.                                                 *)
(***************************************************************************)
RxDelivery ==
    [][(Receive /\ ReceiveSteps.desc # NoDesc) =>
          LET s == ReceiveSteps
          IN  /\ s.desc = Unread(rx)[1]
              /\ read_packet(umem, payload, s.desc) = Frame("kernel", s.desc.len)
              /\ Unread(rx') = Tail(Unread(rx))
              /\ s.reposted
              /\ s.page \in PagesOf(Unread(fr'))]_vars

(***************************************************************************)
(* C12  TX drop on a full ring.  While the kernel has drained nothing from *)
(* TX (its consumer index is 0) a consume call with a frame that fits      *)
(* places one descriptor on TX as long as fewer than tx.size are there;    *)
(* once tx.size are there it places none, leaves the TX ring as it was and *)
(* leaves the free list with the head, order and length it had.            *)
(* ConsumeOutcome evaluates the call in the current state, so a call that  *)
(* changes nothing is checked as well.                                     *)
(***************************************************************************)
ConsumeOutcome(len) ==
    LET s == ConsumeSteps(len)
    IN  IF ToInt(tx.producer) < RingSize(tx)
        THEN /\ s.sent
             /\ Unread(s.tx) = Append(Unread(tx), s.desc)
        ELSE /\ ~s.sent
             /\ s.tx = tx
             /\ s.umem.free_page_id = umem.free_page_id
             /\ FreeList(s.umem) = FreeList(umem)

RingTypes == <<"tx", "rx", "cr", "fr">>

CfgSizes == 0..MaxCfgSize

is_power_of_two_OrOdd(n) == (n > 0 /\ BitAnd(n, n - 1) = 0) \/ n % 2 = 1

is_power_of_two(n) == n > 0 /\ BitAnd(n, n - 1) = 0

At(step, k) == [step |-> step, k |-> k]

\* The steps of XdpSocket::new in program order.
Steps ==
    <<At("socket", 0), At("ifname", 0), At("ifindex", 0), At("mtu", 0),
      At("umem", 0), At("bind_umem", 0),
      At("bind_ring", 1), At("bind_ring", 2), At("bind_ring", 3), At("bind_ring", 4),
      At("offsets", 0),
      At("build", 1), At("build", 2), At("build", 3), At("build", 4),
      At("preload", 0), At("bind_interface", 0), At("live", 0)>>

After(at) == Steps[(CHOOSE i \in 1..Len(Steps) : Steps[i] = at) + 1]

Failure(kind, at) == [kind |-> kind, at |-> at]

\* XdpSocket::new has not returned yet.
NotReturned == Failure("pending", At("none", 0))

\* An object that does not exist yet or has been dropped.
Absent == [absent |-> TRUE]

InitLife ==
    /\ \E entries \in 0..MaxEntries, alignment \in ChunkAlignment,
          t \in CfgSizes, r \in CfgSizes, c \in CfgSizes, f \in CfgSizes :
           cfg = [entries |-> entries, alignment |-> alignment, size |-> <<t, r, c, f>>]
    /\ pc = At("socket", 0)
    /\ sys = [fd |-> 0, maps |-> {}, alloc |-> FALSE]
    /\ result = NotReturned
    /\ events = <<>>
    /\ umem = Absent
    /\ tx = Absent
    /\ rx = Absent
    /\ cr = Absent
    /\ fr = Absent
    /\ kernel_rx = <<>>
    /\ kernel_tx = <<>>
    /\ panicked = FALSE
    /\ last = Op("new", "pending", None)
    /\ InitRingIdle
    /\ hist = <<>>
    /\ InitDataIdle
    /\ InitPubIdle
    /\ InitBuildIdle
    /\ InitKernelIdle
    /\ InitLinkIdle

lifeFrame == <<kernel_rx, kernel_tx, panicked, last, ringVars, hist, cfg,
               dataVars, pubVars, overflow_checks, kernel_defers, link>>

Proceed ==
    /\ pc' = After(pc)
    /\ UNCHANGED <<result, events>>

\* An error return inside XdpSocketDesc::new: `lower` is a plain integer
\* there, nothing is closed.
ReturnEarly(kind) ==
    /\ result' = Failure(kind, pc)
    /\ pc' = At("failed", 0)
    /\ UNCHANGED <<sys, events, umem, tx, rx, cr, fr>>

\* An error return of XdpSocket::new after `lower` exists: the locals are
\* dropped in reverse order of declaration.  XdpRing has no Drop; Umem
\* deallocates; XdpSocketDesc closes the descriptor.
ReturnErr(kind) ==
    /\ result' = Failure(kind, pc)
    /\ pc' = At("failed", 0)
    /\ sys' = [sys EXCEPT !.fd = 0, !.alloc = FALSE]
    /\ events' = events \o (IF sys.alloc THEN <<"dealloc">> ELSE <<>>) \o <<"close">>
    /\ umem' = Absent
    /\ tx' = Absent
    /\ rx' = Absent
    /\ cr' = Absent
    /\ fr' = Absent

DescSocket ==
    /\ pc = At("socket", 0)
    /\ \E ok \in BOOLEAN :
           IF ok
           THEN /\ sys' = [sys EXCEPT !.fd = 1]
                /\ Proceed
                /\ UNCHANGED <<umem, tx, rx, cr, fr>>
           ELSE ReturnEarly("os")
    /\ UNCHANGED lifeFrame

\* CString::new(name)?: a name with an interior NUL is an invalid-input error.
DescIfName ==
    /\ pc = At("ifname", 0)
    /\ \E ok \in BOOLEAN :
           IF ok
           THEN Proceed /\ UNCHANGED <<sys, umem, tx, rx, cr, fr>>
           ELSE ReturnEarly("InvalidInput")
    /\ UNCHANGED lifeFrame

DescIfIndex ==
    /\ pc = At("ifindex", 0)
    /\ \E ok \in BOOLEAN :
           IF ok
           THEN Proceed /\ UNCHANGED <<sys, umem, tx, rx, cr, fr>>
           ELSE ReturnEarly("os")
    /\ UNCHANGED lifeFrame

\* The AF_INET socket and the SIOCGIFMTU ioctl; that socket is closed on
\* both paths.
DescMtu ==
    /\ pc = At("mtu", 0)
    /\ \E ok \in BOOLEAN :
           IF ok
           THEN Proceed /\ UNCHANGED <<sys, umem, tx, rx, cr, fr>>
           ELSE ReturnEarly("os")
    /\ UNCHANGED lifeFrame

\* Umem::new: the layout of entries * alignment bytes, the allocation (a
\* null pointer is an OS error), the zeroing and the linking of the pages.
\* There is no test of entries; what the allocator answers to a request of
\* zero bytes is not defined, so both answers are taken.
UmemNewStep ==
    /\ pc = At("umem", 0)
    /\ \E ok \in BOOLEAN :
           IF ok
           THEN /\ umem' = UmemNew(cfg.entries, cfg.alignment)
                /\ sys' = [sys EXCEPT !.alloc = TRUE]
                /\ Proceed
                /\ UNCHANGED <<tx, rx, cr, fr>>
           ELSE ReturnErr("os")
    /\ UNCHANGED lifeFrame

BindUmem ==
    /\ pc = At("bind_umem", 0)
    /\ \E ok \in BOOLEAN :
           IF ok
           THEN Proceed /\ UNCHANGED <<sys, umem, tx, rx, cr, fr>>
           ELSE ReturnErr("os")
    /\ UNCHANGED lifeFrame

\* bind_ring hands the size to the kernel as it is.
BindRing(k) ==
    /\ pc = At("bind_ring", k)
    /\ \E ok \in BOOLEAN :
           IF ok
           THEN Proceed /\ UNCHANGED <<sys, umem, tx, rx, cr, fr>>
           ELSE ReturnErr("os")
    /\ UNCHANGED lifeFrame

Offsets ==
    /\ pc = At("offsets", 0)
    /\ \E ok \in BOOLEAN :
           IF ok
           THEN Proceed /\ UNCHANGED <<sys, umem, tx, rx, cr, fr>>
           ELSE ReturnErr("os")
    /\ UNCHANGED lifeFrame

\* rings::build: the size test, the mmap, XdpRing::new.
Build(k) ==
    /\ pc = At("build", k)
    /\ IF ~is_power_of_two(cfg.size[k])
       THEN ReturnErr("InvalidInput")
       ELSE \E ok \in BOOLEAN :
                IF ok
                THEN /\ tx' = IF k = 1 THEN XdpRingNew(cfg.size[k]) ELSE tx
                     /\ rx' = IF k = 2 THEN XdpRingNew(cfg.size[k]) ELSE rx
                     /\ cr' = IF k = 3 THEN XdpRingNew(cfg.size[k]) ELSE cr
                     /\ fr' = IF k = 4 THEN XdpRingNew(cfg.size[k]) ELSE fr
                     /\ sys' = [sys EXCEPT !.maps = @ \cup {RingTypes[k]}]
                     /\ Proceed
                     /\ UNCHANGED umem
                ELSE ReturnErr("os")
    /\ UNCHANGED lifeFrame

PreloadFill ==
    /\ pc = At("preload", 0)
    /\ fr' = Preload(fr, packet_descriptors(umem))
    /\ Proceed
    /\ UNCHANGED <<sys, umem, tx, rx, cr>>
    /\ UNCHANGED lifeFrame

BindInterface ==
    /\ pc = At("bind_interface", 0)
    /\ \E ok \in BOOLEAN :
           IF ok
           THEN /\ result' = Failure("ok", pc)
                /\ pc' = After(pc)
                /\ UNCHANGED <<sys, events, umem, tx, rx, cr, fr>>
           ELSE ReturnErr("os")
    /\ UNCHANGED lifeFrame

\* XdpSocketDesc::close, called by XdpSocket::drop: closes the descriptor.
XdpSocketDesc_close(s) == [s EXCEPT !.fd = 0]

\* Drop for XdpSocket runs first ...
SocketDrop ==
    /\ pc = At("live", 0)
    /\ sys' = XdpSocketDesc_close(sys)
    /\ events' = Append(events, "close")
    /\ pc' = At("drop_lower", 0)
    /\ UNCHANGED <<result, umem, tx, rx, cr, fr>>
    /\ UNCHANGED lifeFrame

\* ... then the fields in declaration order: `lower`, whose Drop calls
\* libc::close on the same descriptor number, ...
LowerDrop ==
    /\ pc = At("drop_lower", 0)
    /\ sys' = [sys EXCEPT !.fd = 0]
    /\ events' = Append(events, "close")
    /\ pc' = At("drop_inner", 0)
    /\ UNCHANGED <<result, umem, tx, rx, cr, fr>>
    /\ UNCHANGED lifeFrame

\* ... and `inner`: Umem deallocates, the four XdpRing have no Drop.
InnerDrop ==
    /\ pc = At("drop_inner", 0)
    /\ sys' = [sys EXCEPT !.alloc = FALSE]
    /\ events' = Append(events, "dealloc")
    /\ pc' = At("dropped", 0)
    /\ umem' = Absent
    /\ tx' = Absent
    /\ rx' = Absent
    /\ cr' = Absent
    /\ fr' = Absent
    /\ UNCHANGED result
    /\ UNCHANGED lifeFrame

NextLife ==
    \/ DescSocket
    \/ DescIfName
    \/ DescIfIndex
    \/ DescMtu
    \/ UmemNewStep
    \/ BindUmem
    \/ \E k \in 1..4 : BindRing(k)
    \/ Offsets
    \/ \E k \in 1..4 : Build(k)
    \/ PreloadFill
    \/ BindInterface
    \/ SocketDrop
    \/ LowerDrop
    \/ InnerDrop

SpecLife == InitLife /\ [][NextLife]_vars

(***************************************************************************)
(* C13  Startup preload.  Right after a successful XdpSocket::new the Fill *)
(* ring describes chunks by their canonical empty-chunk descriptors.       *)
(***************************************************************************)
EmptyChunkDesc(page_id) ==
    XdpDesc(desc_addr_from(umem, page_id), umem.alignment - HeadRoomSize)

OnFillOnce(page_id) ==
    /\ Occurrences(page_id, Unread(fr)) = 1
    /\ \E k \in 1..Len(Unread(fr)) : Unread(fr)[k] = EmptyChunkDesc(page_id)

Min(a, b) == IF a < b THEN a ELSE b

\* C13 as stated: every chunk of the pool is on the Fill ring, once, for every
\* accepted entries and fr.size.
PreloadAll ==
    pc = At("live", 0) => \A page_id \in DOMAIN umem.pages : OnFillOnce(page_id)

\* C13 amended: the chunks below min(entries, fr.size) are on the Fill ring,
\* once each; the chunks from fr.size on are not on it.
PreloadFirst ==
    pc = At("live", 0) =>
        \A page_id \in DOMAIN umem.pages :
            IF page_id < Min(cfg.entries, cfg.size[4])
            THEN OnFillOnce(page_id)
            ELSE Occurrences(page_id, Unread(fr)) = 0

\* A socket was built with more chunks than Fill slots.
PreloadFirstWitness ==
    /\ pc = At("live", 0)
    /\ cfg.entries = 2
    /\ cfg.size[4] = 1
    /\ OnFillOnce(0)

(***************************************************************************)
(* How far XdpSocket::new got.                                             *)
(***************************************************************************)
StepIndex(at) == CHOOSE i \in 1..Len(Steps) : Steps[i] = at

\* The step `at` has run, successfully or not.
Returned(at) ==
    CASE pc.step = "failed" -> StepIndex(result.at) >= StepIndex(at)
      [] pc.step \in {"drop_lower", "drop_inner", "dropped"} -> TRUE
      [] OTHER -> StepIndex(pc) > StepIndex(at)

(***************************************************************************)
(* C14  Umem::new with entries = 0 fails with an invalid-input error and   *)
(* produces no pool.                                                       *)
(***************************************************************************)
UmemNewRejectsZero ==
    (cfg.entries = 0 /\ Returned(At("umem", 0))) =>
        /\ result = Failure("InvalidInput", At("umem", 0))
        /\ umem = Absent
        /\ ~sys.alloc

(***************************************************************************)
(* C15  Ring size validation.  With a tx, rx, cr or fr size that is not a  *)
(* power of two (0 included) XdpSocket::new returns no socket: it does not *)
(* get past rings::build of the first such ring, which returns an          *)
(* invalid-input error unless an earlier call has already failed; and no   *)
(* ring handle of a size that is not a power of two ever exists.           *)
(***************************************************************************)
PowersOfTwo == {Pow2(k) : k \in 0..MaxCfgSize}

BadSizes == {k \in 1..4 : cfg.size[k] \notin PowersOfTwo}

FirstBad == CHOOSE k \in BadSizes : \A j \in BadSizes : k <= j

Handles == {r \in {tx, rx, cr, fr} : r # Absent}

RingSizeRejected ==
    /\ \A r \in Handles : RingSize(r) \in PowersOfTwo
    /\ BadSizes # {} =>
          /\ result.kind # "ok"
          /\ pc.step \notin {"failed", "drop_lower", "drop_inner", "dropped"} =>
                 StepIndex(pc) <= StepIndex(At("build", FirstBad))
          /\ pc.step = "failed" =>
                 \/ result = Failure("InvalidInput", At("build", FirstBad))
                 \/ /\ StepIndex(result.at) < StepIndex(At("build", FirstBad))
                    /\ result.kind = IF result.at = At("ifname", 0)
                                     THEN "InvalidInput" ELSE "os"

\* tx.size = 2 was built, rx.size = 0 was refused by rings::build.
RingSizeRejectedWitness ==
    /\ cfg.size[1] = 2
    /\ cfg.size[2] = 0
    /\ cfg.size[3] = 3
    /\ pc = At("failed", 0)
    /\ result = Failure("InvalidInput", At("build", 2))

(***************************************************************************)
(* C16  Teardown order.  When the socket has been dropped, the releases    *)
(* were: the close of the socket descriptor, then the unmapping of each of *)
(* the four ring regions, then the deallocation of the UMEM memory, each   *)
(* exactly once.                                                           *)
(***************************************************************************)
UnmapEvents == {"munmap_tx", "munmap_rx", "munmap_cr", "munmap_fr"}

TeardownOrder ==
    pc = At("dropped", 0) =>
        /\ Len(events) = 6
        /\ events[1] = "close"
        /\ {events[k] : k \in 2..5} = UnmapEvents
        /\ events[6] = "dealloc"
        /\ sys = [fd |-> 0, maps |-> {}, alloc |-> FALSE]

(***************************************************************************)
(* C17  Release on every exit path.  When XdpSocket::new has returned an   *)
(* error, the descriptor, the UMEM allocation and every ring mapping       *)
(* acquired before the failing step have been released.                    *)
(***************************************************************************)
ReleaseOnError ==
    pc = At("failed", 0) => sys = [fd |-> 0, maps |-> {}, alloc |-> FALSE]

(***************************************************************************)
(* SpecLive: the receive side of the adapter under the scheduling C18      *)
(* assumes: the kernel keeps taking descriptors from the Fill ring and the *)
(* adapter keeps being called (receive, and consume with a frame that      *)
(* fits).  Whether frames arrive is left to the network: KernelRxProduce   *)
(* may happen and carries no fairness.                                     *)
(***************************************************************************)
NextLive ==
    \/ Receive
    \/ TxConsume(FrameLen)
    \/ KernelFillConsume
    \/ KernelRxProduce

FairLive ==
    /\ WF_vars(KernelFillConsume)
    /\ WF_vars(Receive)
    /\ WF_vars(TxConsume(FrameLen))

SpecLive == Init /\ [][NextLive]_vars /\ FairLive

(***************************************************************************)
(* C18  Deferred re-post.  A chunk whose descriptor the startup preload    *)
(* could not write to the Fill ring, because the ring was full, is         *)
(* eventually written to the Fill ring by a later adapter operation.       *)
(***************************************************************************)
DroppedAtPreload(page_id) ==
    /\ page_id \in DOMAIN umem.pages
    /\ page_id >= RingSize(fr)
    /\ ToInt(fr.consumer) = 0
    /\ ToInt(fr.producer) = RingSize(fr)

DeferredRepost ==
    \A page_id \in 0..(MaxEntries - 1) :
        DroppedAtPreload(page_id) => <>(page_id \in PagesOf(Unread(fr)))

(***************************************************************************)
(* SpecPub: one ring with Writer.write and Reader.read taken apart into    *)
(* their steps, interleaved freely.  write: snapshot of the two indices    *)
(* and the occupancy test, store of the slot, advance of the producer      *)
(* index.  read: snapshot and the emptiness test, load of the slot,        *)
(* advance of the consumer index.  `written` lists the descriptors in the  *)
(* order they were stored, `readlog` in the order they were loaded.        *)
(***************************************************************************)
NoCall == [pc |-> "idle", c |-> U32(0), p |-> U32(0), desc |-> NoDesc]

\* write with the producer index advanced before the slot is stored.
WriterNext_PublishFirst(step) ==
    CASE step = "begin" -> "publish"
      [] step = "publish" -> "store"
      [] OTHER -> "idle"

\* The order of the statements of Writer.write after the occupancy test.
WriterNext(step) ==
    CASE step = "begin" -> "store"
      [] step = "store" -> "publish"
      [] OTHER -> "idle"

\* The order of the statements of Reader.read after the emptiness test.
ReaderNext(step) ==
    CASE step = "begin" -> "load"
      [] step = "load" -> "publish"
      [] OTHER -> "idle"

InitPub ==
    /\ \E k \in 0..MaxPubLog : ring = XdpRingNew(Pow2(k))
    /\ written = <<>>
    /\ readlog = <<>>
    /\ wr = NoCall
    /\ rd = NoCall
    /\ hist = <<>>
    /\ last = Op("new", "ok", None)
    /\ InitAdapterIdle
    /\ InitDataIdle
    /\ InitLifeIdle
    /\ InitBuildIdle
    /\ InitKernelIdle
    /\ InitLinkIdle

pubFrame == <<adapterVars, last, hist, dataVars, lifeVars, overflow_checks,
             kernel_defers, link>>

WriteBegin(desc) ==
    /\ wr.pc = "idle"
    /\ Len(written) < MaxPubOps
    /\ LET c == ring.consumer
           p == ring.producer
       IN  wr' = IF Gt32(Sub32(p, c), ring.mask)
                 THEN NoCall
                 ELSE [pc |-> WriterNext("begin"), c |-> c, p |-> p, desc |-> desc]
    /\ UNCHANGED <<ring, written, readlog, rd, pubFrame>>

WriteStore ==
    /\ wr.pc = "store"
    /\ ring' = [ring EXCEPT !.descriptors[ToInt(And32(wr.p, ring.mask))] = wr.desc]
    /\ written' = Append(written, wr.desc)
    /\ wr' = [wr EXCEPT !.pc = WriterNext("store")]
    /\ UNCHANGED <<readlog, rd, pubFrame>>

WritePublish ==
    /\ wr.pc = "publish"
    /\ ring' = [ring EXCEPT !.producer = Add32(ring.producer, 1)]
    /\ wr' = [wr EXCEPT !.pc = WriterNext("publish")]
    /\ UNCHANGED <<written, readlog, rd, pubFrame>>

ReadBegin ==
    /\ rd.pc = "idle"
    /\ LET c == ring.consumer
           p == ring.producer
       IN  rd' = IF c = p
                 THEN NoCall
                 ELSE [pc |-> ReaderNext("begin"), c |-> c, p |-> p, desc |-> NoDesc]
    /\ UNCHANGED <<ring, written, readlog, wr, pubFrame>>

ReadLoad ==
    /\ rd.pc = "load"
    /\ LET desc == ring.descriptors[ToInt(And32(rd.c, ring.mask))]
       IN  /\ rd' = [rd EXCEPT !.pc = ReaderNext("load"), !.desc = desc]
           /\ readlog' = Append(readlog, desc)
    /\ UNCHANGED <<ring, written, wr, pubFrame>>

ReadPublish ==
    /\ rd.pc = "publish"
    /\ ring' = [ring EXCEPT !.consumer = Add32(ring.consumer, 1)]
    /\ rd' = [rd EXCEPT !.pc = ReaderNext("publish")]
    /\ UNCHANGED <<written, readlog, wr, pubFrame>>

NextPub ==
    \/ \E desc \in RingDescs : WriteBegin(desc)
    \/ WriteStore
    \/ WritePublish
    \/ ReadBegin
    \/ ReadLoad
    \/ ReadPublish

SpecPub == InitPub /\ [][NextPub]_vars

(***************************************************************************)
(* C19  Publication protocol.  A reader that has seen the producer index   *)
(* above its consumer index loads a slot that has been stored: the slot    *)
(* holds the descriptor written for that index.  A writer that is about to *)
(* store into a slot does so only after the reader has loaded the          *)
(* descriptor that slot held before.  What is loaded is what was stored,   *)
(* in order.                                                               *)
(***************************************************************************)
PublicationProtocol ==
    /\ rd.pc = "load" =>
           /\ ToInt(rd.c) < Len(written)
           /\ ring.descriptors[ToInt(And32(rd.c, ring.mask))] = written[ToInt(rd.c) + 1]
    /\ wr.pc = "store" =>
           /\ ToInt(wr.p) = Len(written)
           /\ Len(readlog) >= ToInt(wr.p) + 1 - RingSize(ring)
    /\ Len(readlog) <= Len(written)
    /\ \A k \in 1..Len(readlog) : readlog[k] = written[k]

\* The writer is about to reuse slot 0 of a ring of two slots while the
\* reader is between its emptiness test and its load of slot 1.
PublicationProtocolWitness ==
    /\ RingSize(ring) = 2
    /\ wr.pc = "store"
    /\ ToInt(wr.p) = 2
    /\ rd.pc = "load"
    /\ ToInt(rd.c) = 1

(***************************************************************************)
(* SpecWrap: one ring whose indices are about to roll over.  The ring      *)
(* starts empty with both indices at 2^32 - d, the state it is in after    *)
(* that many writes and reads.  rings.rs computes `p - c` and `+= 1` with  *)
(* the plain operators: they wrap in a build without overflow checks and   *)
(* panic in a build with them (the default of the dev and test profiles),  *)
(* so the build is part of the initial state.                              *)
(***************************************************************************)
U32Max == [hi |-> U16Max, lo |-> U16Max]

\* Writer.write as the given build runs it.
WriterWriteBuild(r, desc, checks) ==
    LET c == r.consumer
        p == r.producer
        w == WriterWrite(r, desc)
    IN  IF checks /\ Gt32(c, p)
        THEN \* p - c: attempt to subtract with overflow
             [res |-> "panic", ring |-> r]
        ELSE IF ~w.ok
        THEN [res |-> "wouldblock", ring |-> r]
        ELSE IF checks /\ p = U32Max
        THEN \* producer += 1: attempt to add with overflow, the slot is stored
             [res |-> "panic", ring |-> [w.ring EXCEPT !.producer = p]]
        ELSE [res |-> "ok", ring |-> w.ring]

\* Reader.read as the given build runs it.
ReaderReadBuild(r, checks) ==
    LET c == r.consumer
        rr == ReaderRead(r)
    IN  IF rr.desc = NoDesc
        THEN [res |-> "none", desc |-> NoDesc, ring |-> r]
        ELSE IF checks /\ c = U32Max
        THEN \* consumer += 1: attempt to add with overflow
             [res |-> "panic", desc |-> NoDesc, ring |-> r]
        ELSE [res |-> "ok", desc |-> rr.desc, ring |-> rr.ring]

InitWrap ==
    /\ \E k \in 0..MaxWrapLog, d \in 0..MaxWrapBack :
           ring = [XdpRingNew(Pow2(k)) EXCEPT !.producer = Sub32(U32(0), U32(d)),
                                              !.consumer = Sub32(U32(0), U32(d))]
    /\ overflow_checks \in BOOLEAN
    /\ InitKernelIdle
    /\ InitLinkIdle
    /\ written = <<>>
    /\ readlog = <<>>
    /\ hist = <<>>
    /\ last = Op("new", "ok", None)
    /\ InitAdapterIdle
    /\ InitDataIdle
    /\ InitLifeIdle
    /\ InitPubIdle

wrapFrame == <<umem, tx, rx, cr, fr, kernel_rx, kernel_tx, hist, auxVars>>

WrapWrite(desc) ==
    /\ ~panicked
    /\ Len(written) < MaxWrapOps
    /\ LET w == WriterWriteBuild(ring, desc, overflow_checks)
       IN  /\ ring' = w.ring
           /\ written' = IF w.res = "ok" THEN Append(written, desc) ELSE written
           /\ panicked' = (w.res = "panic")
           /\ last' = Op("write", w.res, desc.addr \div TwoK)
    /\ UNCHANGED <<readlog, wrapFrame>>

WrapRead ==
    /\ ~panicked
    /\ LET r == ReaderReadBuild(ring, overflow_checks)
       IN  /\ ring' = r.ring
           /\ readlog' = IF r.res = "ok" THEN Append(readlog, r.desc) ELSE readlog
           /\ panicked' = (r.res = "panic")
           /\ last' = Op("read", r.res,
                         IF r.res = "ok" THEN r.desc.addr \div TwoK ELSE None)
    /\ UNCHANGED <<written, wrapFrame>>

NextWrap ==
    \/ \E desc \in RingDescs : WrapWrite(desc)
    \/ WrapRead

SpecWrap == InitWrap /\ [][NextWrap]_vars

(***************************************************************************)
(* C20  Counter wrap.  Across a rollover of the indices neither write nor  *)
(* read fails, the occupancy computed from the indices is the number of    *)
(* descriptors written and not yet read, write refuses only a full ring    *)
(* and read returns nothing only from an empty one, and the descriptors    *)
(* come out in the order they went in.                                     *)
(***************************************************************************)
WrapBehaviour ==
    /\ Occupancy(ring) = Len(written) - Len(readlog)
    /\ Occupancy(ring) <= RingSize(ring)
    /\ \A k \in 1..Len(readlog) : readlog[k] = written[k]
    /\ (last.op = "write" /\ last.res = "wouldblock") => Occupancy(ring) = RingSize(ring)
    /\ (last.op = "read" /\ last.res = "none") => Occupancy(ring) = 0

CounterWrap == ~panicked /\ WrapBehaviour

(***************************************************************************)
(* SpecTx: the transmit path alone.  TxToken::consume against a kernel     *)
(* that either puts each descriptor on Completion in the step that takes   *)
(* it from TX, or holds it in between (kernel_defers), chosen at           *)
(* construction.                                                           *)
(***************************************************************************)
InitTx ==
    /\ \E entries \in 1..MaxEntries, alignment \in ChunkAlignment :
           umem = UmemNew(entries, alignment)
    /\ \E size \in RingSizes : tx = XdpRingNew(size)
    /\ \E size \in RingSizes : cr = XdpRingNew(size)
    /\ rx = XdpRingNew(1)
    /\ fr = Preload(XdpRingNew(1), packet_descriptors(umem))
    /\ kernel_rx = <<>>
    /\ kernel_tx = <<>>
    /\ panicked = FALSE
    /\ last = Op("new", "ok", None)
    /\ InitRingIdle
    /\ hist = <<>>
    /\ InitDataIdle
    /\ InitLifeIdle
    /\ InitPubIdle
    /\ InitBuildIdle
    /\ kernel_defers \in BOOLEAN
    /\ InitLinkIdle

\* The kernel takes the head of TX and puts it on Completion in one step;
\* it leaves the descriptor on TX while Completion has no room.
KernelTxMove ==
    /\ ~kernel_defers
    /\ ~panicked
    /\ LET r == ReaderRead(tx)
           w == WriterWrite(cr, r.desc)
       IN  /\ r.desc # NoDesc
           /\ w.ok
           /\ tx' = r.ring
           /\ cr' = w.ring
    /\ UNCHANGED <<umem, rx, fr, kernel_rx, kernel_tx, panicked, last, ringVars,
                   hist, auxVars>>

KernelTxTake == kernel_defers /\ KernelTxConsume

KernelTxComplete == kernel_defers /\ KernelCrProduce

NextTx ==
    \/ \E len \in TxLens : TxConsume(len)
    \/ KernelTxMove
    \/ KernelTxTake
    \/ KernelTxComplete

SpecTx == InitTx /\ [][NextTx]_vars

\* The kernel has a descriptor to complete and Completion has no free slot.
KernelFindsCrFull ==
    /\ Occupancy(tx) > 0 \/ kernel_tx # <<>>
    /\ Occupancy(cr) = RingSize(cr)

TxInFlight ==
    /\ Occupancy(tx) + Occupancy(cr) <= RingSize(tx)
    /\ RingSize(cr) >= RingSize(tx) => ~KernelFindsCrFull

\* C21 as stated: under any interleaving of TxToken::consume with the
\* kernel's TX -> Completion traffic, the descriptors on TX plus those on
\* Completion never exceed tx.size, and with cr.size >= tx.size the kernel
\* never finds Completion full.  Fails when the kernel holds a descriptor
\* between the two rings.
TxInFlightBound == TxInFlight

\* C21, amended: the bound holds against a kernel that puts each descriptor
\* on Completion in the same step that takes it from TX.
TxInFlightBoundInStep == ~kernel_defers => TxInFlight

\* The in-step kernel has filled Completion up to tx.size after consume
\* drained a descriptor from it.
TxInFlightBoundInStepWitness ==
    /\ ~kernel_defers
    /\ RingSize(cr) >= RingSize(tx)
    /\ ToInt(cr.consumer) > 0
    /\ Occupancy(cr) > 0
    /\ Occupancy(tx) + Occupancy(cr) = RingSize(tx)

(***************************************************************************)
(* C22: the receive path holds exactly the preloaded chunks.               *)
(***************************************************************************)
\* Descriptors on Fill, taken from Fill by the kernel and not yet on RX, and
\* on RX.
RxPathDescs == Unread(fr) \o kernel_rx \o Unread(rx)

\* C22: with the kernel producing an RX descriptor only for a chunk it took
\* from Fill, the descriptors on Fill, with the kernel and on RX number at
\* most min(entries, fr.size); the fr.write of a receive that read a
\* descriptor never would-block; and every chunk on the receive path is one
\* the startup preload posted (page index below min(entries, fr.size)).
FillNeverFull ==
    /\ Len(RxPathDescs) <= Min(UmemSize(umem), RingSize(fr))
    /\ ReceiveSteps.desc # NoDesc =>
           /\ ReceiveSteps.reposted
           /\ ReceiveSteps.page < PreloadCount
    /\ \A page_id \in PagesOf(RxPathDescs) : page_id < PreloadCount

\* receive has re-posted a chunk and Fill is full again, in a socket whose
\* preload left chunks out.
FillNeverFullWitness ==
    /\ ToInt(fr.producer) > PreloadCount
    /\ Occupancy(fr) = RingSize(fr)
    /\ UmemSize(umem) > RingSize(fr)

(***************************************************************************)
(* SpecLink: the 16-bit link word.  The stores of a page index that        *)
(* Umem::new and Umem::free perform, for pools whose size is small or      *)
(* near 2^16, applied to single pages: the cast to u16, the headroom       *)
(* encoding and the read back.                                             *)
(***************************************************************************)
\* isize::MAX of the narrowest target (32 bit): allocation sizes up to here
\* pass Layout::from_size_align on every target.
IsizeMax32 == 2147483647

\* Umem::new gets past Layout::from_size_align (alignment is a power of two).
UmemNewAccepts(entries, alignment) == entries * alignment <= IsizeMax32

LinkEntries == (1..MaxLinkSmall) \cup ((U16Max - 1)..(U16Max + MaxLinkOver))

\* The pages looked at: the first ones and those around index 2^16 - 1.
LinkPages(entries) ==
    {i \in (0..MaxLinkSmall) \cup ((U16Max - 2)..(U16Max + MaxLinkOver)) :
        i < entries}

\* Umem::new, iteration i: the word left in page i's headroom.
UmemNewLink(entries, i) ==
    HeadRoom_set_free_page_id(IF i = entries - 1 THEN None ELSE AsU16(i + 1))

\* Umem::free: the new free_page_id.
UmemFreeHead(page_id) == AsU16(page_id)

\* Umem::free of the next page: the word that stores the previous head.
UmemFreeLink(last_free_page_id) == HeadRoom_set_free_page_id(last_free_page_id)

InitLink ==
    /\ \E entries \in LinkEntries, alignment \in ChunkAlignment :
           /\ UmemNewAccepts(entries, alignment)
           /\ link = [op |-> "accepted", entries |-> entries,
                      alignment |-> alignment, page_id |-> None,
                      free_page_id |-> 0, word |-> U16Max]
    /\ InitAdapterIdle
    /\ InitRingIdle
    /\ hist = <<>>
    /\ last = Op("new", "ok", None)
    /\ InitDataIdle
    /\ InitLifeIdle
    /\ InitPubIdle
    /\ InitBuildIdle
    /\ InitKernelIdle

linkFrame == <<adapterVars, last, ringVars, hist, dataVars, lifeVars, pubVars,
               overflow_checks, kernel_defers>>

\* Umem::new links page i to page i + 1; page_id is the index the link is
\* meant to hold (None for the last page).
LinkNew(i) ==
    /\ i \in LinkPages(link.entries)
    /\ link' = [link EXCEPT !.op = "new",
                            !.page_id = IF i = link.entries - 1 THEN None
                                        ELSE i + 1,
                            !.word = UmemNewLink(link.entries, i)]
    /\ UNCHANGED linkFrame

\* Umem::free(page_id) makes page_id the head of the free list.
LinkFree(page_id) ==
    /\ page_id \in LinkPages(link.entries)
    /\ link' = [link EXCEPT !.op = "free",
                            !.page_id = page_id,
                            !.free_page_id = UmemFreeHead(page_id)]
    /\ UNCHANGED linkFrame

\* The Umem::free that follows stores that head in the headroom of the page
\* it frees.
LinkPush ==
    /\ link.op = "free"
    /\ link' = [link EXCEPT !.op = "push",
                            !.word = UmemFreeLink(link.free_page_id)]
    /\ UNCHANGED linkFrame

NextLink ==
    \/ \E i \in LinkPages(link.entries) : LinkNew(i)
    \/ \E page_id \in LinkPages(link.entries) : LinkFree(page_id)
    \/ LinkPush

SpecLink == InitLink /\ [][NextLink]_vars

\* C23: link width.  For every accepted `entries`, a page index stored in
\* free_page_id is the index itself, and a page index stored in a headroom
\* link (by Umem::new or by Umem::free) reads back as that index; the
\* absent link of the last page reads back as none.
LinkWidth ==
    /\ link.op = "free" => link.free_page_id = link.page_id
    /\ link.op \in {"new", "push"} =>
           HeadRoom_free_page_id(link.word) = link.page_id

====
